---- MODULE Spec2Model ----
(***************************************************************************)
(* keychain2bitwarden: the one-way sync of macOS Keychain entries into a   *)
(* Bitwarden vault (src/keychain2bitwarden.py, class KeychainBitwardenSync).*)
(*                                                                         *)
(* Python strings are sequences of one-character strings; None and str     *)
(* values that may be either are tagged records.  The keychain (the text   *)
(* `security dump-keychain` prints) and the vault (the JSON `bw list       *)
(* items` prints) are the environment; one KeychainBitwardenSync object    *)
(* runs sync() on them, step by step, any number of times.                 *)
(***************************************************************************)
EXTENDS Integers, Sequences, FiniteSets, TLC

----------------------------------------------------------------------------
(* Python values and string operations                                     *)

\* Python's None, and a str value where None is possible too.
None == [t |-> "None"]
Str(s) == [t |-> "str", v |-> s]

\* bool(x) of an Optional[str]: None and '' are falsy.
Truthy(x) == x.t = "str" /\ x.v # <<>>

\* f"{x}": a str formats as itself, None as the text None.
Format(x) == IF x.t = "None" THEN <<"N", "o", "n", "e">> ELSE x.v

\* sub occurs in s at position i.
StartsAt(s, sub, i) ==
    /\ i + Len(sub) - 1 <= Len(s)
    /\ SubSeq(s, i, i + Len(sub) - 1) = sub

\* `sub in s`
Contains(s, sub) == \E i \in 1..(Len(s) + 1) : StartsAt(s, sub, i)

\* s.find(sub) + 1: the position of the first occurrence, 0 when there is none.
Find(s, sub) ==
    IF Contains(s, sub)
    THEN CHOOSE i \in 1..(Len(s) + 1) :
            /\ StartsAt(s, sub, i)
            /\ \A j \in 1..(i - 1) : ~StartsAt(s, sub, j)
    ELSE 0

\* s.split(sep)[0]: the text before the first sep, all of s when sep is absent.
SplitFirst(s, sep) ==
    IF Find(s, sep) = 0 THEN s ELSE SubSeq(s, 1, Find(s, sep) - 1)

\* s.split(sep, 1) of an s that contains sep: <<before, after>>.
SplitOnce(s, sep) ==
    << SubSeq(s, 1, Find(s, sep) - 1),
       SubSeq(s, Find(s, sep) + Len(sep), Len(s)) >>

\* s.split(sep): every piece, the empty ones included.
RECURSIVE Split(_, _)
Split(s, sep) ==
    IF Find(s, sep) = 0 THEN << s >>
    ELSE << SubSeq(s, 1, Find(s, sep) - 1) >>
         \o Split(SubSeq(s, Find(s, sep) + Len(sep), Len(s)), sep)

\* s.strip(chars)
RECURSIVE LStrip(_, _)
LStrip(s, chars) ==
    IF s # <<>> /\ Head(s) \in chars THEN LStrip(Tail(s), chars) ELSE s

RECURSIVE RStrip(_, _)
RStrip(s, chars) ==
    IF s # <<>> /\ s[Len(s)] \in chars
    THEN RStrip(SubSeq(s, 1, Len(s) - 1), chars) ELSE s

Strip(s, chars) == RStrip(LStrip(s, chars), chars)

\* str.strip(): whitespace.
Whitespace == {" ", "\n", "\t"}

----------------------------------------------------------------------------
(* _get_keychain_items: the parse of `security dump-keychain -d`           *)

NL == << "\n" >>
EQ == << "=" >>
QuoteSpace == {"\"", " "}
KeychainMark == << "k", "e", "y", "c", "h", "a", "i", "n", ":", " " >>
ACCT == << "a", "c", "c", "t" >>
SVCE == << "s", "v", "c", "e" >>

\* keyring.get_password(service, account) or '': the secret the keyring holds.
GetKeychainPassword(account, service) == << "p", "w" >>

\* dict: a function from keys to values; d.get(k, '').
EmptyDict == [k \in {} |-> <<>>]
DictGet(d, k, default) == IF k \in DOMAIN d THEN d[k] ELSE default
DictSet(d, k, val) == [x \in DOMAIN d \cup {k} |-> IF x = k THEN val ELSE d[x]]

\* KeychainItem(account=current_item.get('acct', ''), service=..., password=...)
KeychainItem(current_item) ==
    [account  |-> DictGet(current_item, ACCT, <<>>),
     service  |-> DictGet(current_item, SVCE, <<>>),
     password |-> GetKeychainPassword(DictGet(current_item, ACCT, <<>>),
                                      DictGet(current_item, SVCE, <<>>))]

\* The loop over the lines: st = [items, current_item] after the lines so far.
ParseLine(st, line) ==
    IF Contains(line, KeychainMark)
    THEN [items |-> IF DOMAIN st.current_item # {}
                    THEN Append(st.items, KeychainItem(st.current_item))
                    ELSE st.items,
          current_item |-> EmptyDict]
    ELSE IF Contains(line, EQ)
    THEN [items |-> st.items,
          current_item |->
              DictSet(st.current_item,
                      Strip(SplitOnce(line, EQ)[1], QuoteSpace),
                      Strip(SplitOnce(line, EQ)[2], QuoteSpace))]
    ELSE st

RECURSIVE ParseLines(_, _)
ParseLines(st, lines) ==
    IF lines = <<>> THEN st
    ELSE ParseLines(ParseLine(st, Head(lines)), Tail(lines))

\* The items the function returns for an exit code and an output.
GetKeychainItems(returncode, stdout) ==
    IF returncode # 0 THEN <<>>
    ELSE ParseLines([items |-> <<>>, current_item |-> EmptyDict],
                    Split(stdout, NL)).items

----------------------------------------------------------------------------
(* _login_bitwarden                                                        *)

\* What one vault or keychain command can do: raise (the except branch), exit
\* non-zero, or exit 0.
Outcomes == {"raise", "fail", "ok"}

\* The outputs `bw login --raw` prints on exit 0: nothing, or a token and a
\* newline.
LoginOutputs == { <<>>, << "t", "\n" >> }

\* The value _login_bitwarden returns.
LoginResult(outcome) == outcome = "ok"

\* bw_session after _login_bitwarden: assigned on exit 0 only.
LoginSession(session, outcome, stdout) ==
    IF outcome = "ok" THEN Str(Strip(stdout, Whitespace)) ELSE session

----------------------------------------------------------------------------
(* _get_bitwarden_items, _create_bitwarden_item                            *)

SEP == << " ", "-", " " >>
AT == << "@" >>
HTTPS == << "h", "t", "t", "p", "s", ":", "/", "/" >>
NewId == << "i", "d" >>

Dict(d) == [t |-> "dict", d |-> d]

\* BitwardenItem(id=item['id'], name=item['name'], login=item.get('login', {}))
BitwardenItem(item) ==
    [id    |-> item.id,
     name  |-> item.name,
     login |-> IF "login" \in DOMAIN item THEN item.login ELSE Dict(EmptyDict)]

\* The list the function returns; listing is the JSON output once parsed,
\* malformed says that json.loads raises on it.
GetBitwardenItems(session, outcome, malformed, listing) ==
    IF ~Truthy(session) THEN <<>>
    ELSE IF outcome # "ok" THEN <<>>
    ELSE IF malformed THEN <<>>
    ELSE IF \E k \in 1..Len(listing) : {"id", "name"} \ DOMAIN listing[k] # {}
    THEN <<>>
    ELSE [k \in 1..Len(listing) |-> BitwardenItem(listing[k])]

\* A slip: the display name built as account - service.
ItemDataAccountFirst(keychain_item) ==
    [id       |-> Str(NewId),
     type     |-> 1,
     name     |-> Str(keychain_item.account \o SEP \o keychain_item.service),
     favorite |-> FALSE,
     login    |-> Dict([username |-> Str(keychain_item.account),
                        password |-> Str(keychain_item.password),
                        uris     |-> Str(HTTPS \o keychain_item.service)])]

\* item_data of _create_bitwarden_item, as the vault then lists it (notes,
\* organizationId and folderId, which nothing reads, are left out).
ItemData(keychain_item) ==
    [id       |-> Str(NewId),
     type     |-> 1,
     name     |-> Str(keychain_item.service \o SEP \o keychain_item.account),
     favorite |-> FALSE,
     login    |-> Dict([username |-> Str(keychain_item.account),
                        password |-> Str(keychain_item.password),
                        uris     |-> Str(HTTPS \o keychain_item.service)])]

\* The value _create_bitwarden_item returns.
CreateResult(session, outcome) == Truthy(session) /\ outcome = "ok"

----------------------------------------------------------------------------
(* sync: the comparison keys and the steps                                 *)

\* f"{kc_item.account}@{kc_item.service}"
LocalKey(kc_item) == kc_item.account \o AT \o kc_item.service

\* item.login.get('username', '')
Username(login) ==
    IF "username" \in DOMAIN login.d THEN login.d.username ELSE Str(<<>>)

\* f"{item.login.get('username', '')}@{item.name.split(' - ')[0]}"
VaultKey(item) ==
    Format(Username(item.login)) \o AT \o SplitFirst(item.name.v, SEP)

\* The key expression raises AttributeError: None has neither get nor split.
KeyRaises(item) == item.login.t = "None" \/ item.name.t = "None"

\* The keys of bw_lookup.
BwLookup(items) == { VaultKey(items[k]) : k \in 1..Len(items) }

\* A slip: the account alone looked up.
MissingByAccount(kc_item, lookup) == kc_item.account \notin lookup

\* `key not in bw_lookup`
Missing(kc_item, lookup) == LocalKey(kc_item) \notin lookup

\* A slip: the check of check_only left out.
CreatesAlways(missing, checkOnly) == missing

\* `if key not in bw_lookup: ... if not check_only:` the item is created.
Creates(missing, checkOnly) == missing /\ ~checkOnly

\* A slip: the vault listed again after each record.
StepAfterRelisting(at, ok) ==
    CASE at = "login"      -> IF ok THEN "list_local" ELSE "done"
      [] at = "list_local" -> "list_vault"
      [] at = "list_vault" -> "lookup"
      [] at = "lookup"     -> IF ok THEN "loop" ELSE "raised"
      [] at = "loop"       -> IF ok THEN "list_vault" ELSE "done"

\* The step of sync that follows step `at`; ok is the step's result where the
\* code branches on it (`if not self._login_bitwarden(): return`).
StepAfter(at, ok) ==
    CASE at = "login"      -> IF ok THEN "list_local" ELSE "done"
      [] at = "list_local" -> "list_vault"
      [] at = "list_vault" -> "lookup"
      [] at = "lookup"     -> IF ok THEN "loop" ELSE "raised"
      [] at = "loop"       -> IF ok THEN "loop" ELSE "done"

----------------------------------------------------------------------------
(* The environment's inputs                                                *)

MaxBlocks == 3
MaxVault == 2

\* The lines of a dump.
KeychainLine == KeychainMark \o << "\"", "k", "\"" >> \o NL
ClassLine == << "c", "l", "a", "s", "s", ":", " ", "\"", "g", "\"" >> \o NL
AttrLine(name, value) ==
    << " ", "\"" >> \o name \o << "\"", "=", "\"" >> \o value \o << "\"" >> \o NL
BlobLine(name, value) ==
    << " ", "\"" >> \o name \o << "\"", "<", "b", ">", "=", "\"" >> \o value
        \o << "\"" >> \o NL

\* The (account, service) pairs of the keychain's entries.
Pairs ==
    { << << "a", "@", "b" >>, << "c" >> >>,
      << << "a" >>, << "b", " ", "-" >> >> }

\* An entry block: its keychain line, its class line, then its attribute
\* lines.  A plain block names acct and svce as the parser reads them; a blob
\* block has them in the format of the security tool.
Blocks ==
    { [blob |-> FALSE, account |-> p[1], service |-> p[2]] : p \in Pairs }
        \cup { [blob |-> TRUE, account |-> << "a" >>, service |-> << "c" >>] }

\* The text of a block.
BlockText(b) ==
    KeychainLine \o ClassLine
        \o (IF b.blob THEN BlobLine(ACCT, b.account) \o BlobLine(SVCE, b.service)
             ELSE AttrLine(ACCT, b.account) \o AttrLine(SVCE, b.service))

\* The dumps: up to MaxBlocks blocks, one after the other.
RECURSIVE DumpsOf(_)
DumpsOf(n) ==
    IF n = 0 THEN { <<>> }
    ELSE LET shorter == DumpsOf(n - 1)
         IN  shorter \cup { Append(d, b) : d \in shorter, b \in Blocks }
Dumps == DumpsOf(MaxBlocks)

RECURSIVE DumpText(_)
DumpText(d) ==
    IF d = <<>> THEN <<>> ELSE BlockText(Head(d)) \o DumpText(Tail(d))

\* Vault entries that were not made by this tool.
SecureNote == [id |-> Str(<< "1" >>), name |-> Str(<< "n" >>)]
NullLogin == [id |-> Str(<< "2" >>), name |-> Str(<< "n" >>), login |-> None]
Other ==
    [id |-> Str(<< "3" >>), name |-> Str(<< "b", "@", "c" >>),
     login |-> Dict([username |-> Str(<< "a" >>)])]
InitialVaults == { <<>>, << SecureNote >>, << NullLogin >>, << Other >> }

----------------------------------------------------------------------------
(* The state                                                               *)

VARIABLES
    keychain,        \* environment: the entry blocks of the keychain
    vault,           \* environment: the JSON items of the vault
    bw_session,      \* self.bw_session
    pc,              \* where sync stands
    check_only,      \* sync's argument
    keychain_items,  \* sync's local
    bitwarden_items, \* sync's local
    bw_lookup,       \* sync's local: the keys of the dict
    idx,             \* the for loop: the index of the next kc_item
    calls            \* the collaborator calls of this run, in order

vars == << keychain, vault, bw_session, pc, check_only, keychain_items,
           bitwarden_items, bw_lookup, idx, calls >>

\* A call: the collaborator, its argument, and its result: the boolean that
\* authenticate and createEntry return, and for a listing whether its command
\* ran and exited 0.
Call(op, arg, res) == [op |-> op, arg |-> arg, res |-> res]

Init ==
    /\ keychain \in Dumps
    /\ vault \in InitialVaults
    /\ bw_session = None
    /\ pc = "idle"
    /\ check_only = TRUE
    /\ keychain_items = <<>>
    /\ bitwarden_items = <<>>
    /\ bw_lookup = {}
    /\ idx = 1
    /\ calls = <<>>

\* main(): syncer.sync(check_only=not args.write); or a further call of sync on
\* the same object.
Sync(write) ==
    /\ pc \in {"idle", "done", "raised"}
    /\ pc' = "login"
    /\ check_only' = ~write
    /\ keychain_items' = <<>>
    /\ bitwarden_items' = <<>>
    /\ bw_lookup' = {}
    /\ idx' = 1
    /\ calls' = <<>>
    /\ UNCHANGED << keychain, vault, bw_session >>

\* if not self._login_bitwarden(): return
LoginBitwarden(outcome, stdout) ==
    /\ pc = "login"
    /\ bw_session' = LoginSession(bw_session, outcome, stdout)
    /\ calls' = Append(calls, Call("authenticate", None, LoginResult(outcome)))
    /\ pc' = StepAfter("login", LoginResult(outcome))
    /\ UNCHANGED << keychain, vault, check_only, keychain_items,
                    bitwarden_items, bw_lookup, idx >>

\* keychain_items = self._get_keychain_items()
ListLocal(outcome) ==
    /\ pc = "list_local"
    /\ keychain_items' =
           IF outcome = "raise" THEN <<>>
           ELSE GetKeychainItems(IF outcome = "ok" THEN 0 ELSE 1,
                                 DumpText(keychain))
    /\ calls' = Append(calls, Call("listLocal", None, outcome = "ok"))
    /\ pc' = StepAfter("list_local", TRUE)
    /\ UNCHANGED << keychain, vault, bw_session, check_only, bitwarden_items,
                    bw_lookup, idx >>

\* bitwarden_items = self._get_bitwarden_items()
ListEntries(outcome, malformed) ==
    /\ pc = "list_vault"
    /\ bitwarden_items' =
           GetBitwardenItems(bw_session, outcome, malformed, vault)
    /\ calls' = Append(calls, Call("listEntries", None,
                                      Truthy(bw_session) /\ outcome = "ok"))
    /\ pc' = StepAfter("list_vault", TRUE)
    /\ UNCHANGED << keychain, vault, bw_session, check_only, keychain_items,
                    bw_lookup, idx >>

\* bw_lookup = {...: item for item in bitwarden_items}
BuildLookup ==
    /\ pc = "lookup"
    /\ LET raises == \E k \in 1..Len(bitwarden_items) :
                         KeyRaises(bitwarden_items[k])
       IN  /\ bw_lookup' = IF raises THEN {} ELSE BwLookup(bitwarden_items)
           /\ pc' = StepAfter("lookup", ~raises)
    /\ UNCHANGED << keychain, vault, bw_session, check_only, keychain_items,
                    bitwarden_items, idx, calls >>

\* One pass of `for kc_item in keychain_items:`.
LoopStep(outcome) ==
    /\ pc = "loop"
    /\ idx <= Len(keychain_items)
    /\ LET kc_item == keychain_items[idx]
           res == CreateResult(bw_session, outcome)
       IN  IF Creates(Missing(kc_item, bw_lookup), check_only)
           THEN \* the vault takes a new item while it holds fewer than MaxVault
                /\ res => Len(vault) < MaxVault
                /\ calls' = Append(calls, Call("createEntry", kc_item, res))
                /\ vault' = IF res THEN Append(vault, ItemData(kc_item))
                            ELSE vault
           ELSE \* no command runs: the outcome plays no part
                /\ outcome = "ok"
                /\ UNCHANGED << calls, vault >>
    /\ idx' = idx + 1
    /\ pc' = StepAfter("loop", TRUE)
    /\ UNCHANGED << keychain, bw_session, check_only, keychain_items,
                    bitwarden_items, bw_lookup >>

\* The for loop is exhausted: sync returns.
LoopEnd ==
    /\ pc = "loop"
    /\ idx > Len(keychain_items)
    /\ pc' = StepAfter("loop", FALSE)
    /\ UNCHANGED << keychain, vault, bw_session, check_only, keychain_items,
                    bitwarden_items, bw_lookup, idx, calls >>

Next ==
    \/ \E write \in BOOLEAN : Sync(write)
    \/ \E outcome \in Outcomes, stdout \in LoginOutputs :
           LoginBitwarden(outcome, stdout)
    \/ \E outcome \in Outcomes : ListLocal(outcome)
    \/ \E outcome \in Outcomes, malformed \in BOOLEAN :
           ListEntries(outcome, malformed)
    \/ BuildLookup
    \/ \E outcome \in Outcomes : LoopStep(outcome)
    \/ LoopEnd

Spec == Init /\ [][Next]_vars

----------------------------------------------------------------------------
(* The claims                                                              *)

CreateCalls == SelectSeq(calls, LAMBDA c : c.op = "createEntry")
Count(op) == Cardinality({ k \in 1..Len(calls) : calls[k].op = op })

\* MISSING: the record's key account@service is not among the existing keys.
IsMISSING(k) ==
    (keychain_items[k].account \o << "@" >> \o keychain_items[k].service)
        \notin bw_lookup

\* The MISSING records among the first n, in the order of the list.
RECURSIVE MissingUpTo(_)
MissingUpTo(n) ==
    IF n = 0 THEN <<>>
    ELSE IF IsMISSING(n) THEN Append(MissingUpTo(n - 1), keychain_items[n])
    ELSE MissingUpTo(n - 1)

\* C1: a run with check_only = TRUE never invokes createEntry.
C1_DryRunLaw == check_only => Count("createEntry") = 0

\* C1 witness: a dry run has ended with two MISSING records and no creation.
C1_Witness ==
    /\ pc = "done" /\ check_only /\ Len(calls) = 3
    /\ Len(keychain_items) = 2 /\ IsMISSING(1) /\ IsMISSING(2)

\* C2: in write mode the createEntry calls so far are exactly the MISSING
\* records among those the loop has passed, once each and in list order,
\* whatever the calls returned; a run that ends after a successful login has
\* passed every record.
C2_WriteModeLaw ==
    ~check_only =>
        /\ [k \in 1..Len(CreateCalls) |-> CreateCalls[k].arg]
               = MissingUpTo(idx - 1)
        /\ (pc = "done" /\ calls[1].res) => idx = Len(keychain_items) + 1

\* C2 witness: a write run has ended with two creations, the first of which
\* returned false.
C2_Witness ==
    /\ pc = "done" /\ ~check_only
    /\ Len(CreateCalls) = 2
    /\ ~CreateCalls[1].res /\ CreateCalls[2].res

\* C3 as stated: when the login reports failure or leaves no usable session
\* token, no other collaborator is invoked in the run.
C3_AuthFailureIsFatal ==
    (Len(calls) >= 1 /\ (~calls[1].res \/ ~Truthy(bw_session)))
        => Len(calls) = 1

\* C4 as stated, in a run that holds a session token: when the dump command
\* succeeds, the records are the blocks of the dump, one for one and in order,
\* with each block's account and service.
C4_ListingComplete ==
    (Len(calls) >= 2 /\ calls[2].res /\ Truthy(bw_session)) =>
        /\ Len(keychain_items) = Len(keychain)
        /\ \A k \in 1..Len(keychain_items) :
               /\ keychain_items[k].account = keychain[k].account
               /\ keychain_items[k].service = keychain[k].service

\* C5 as stated: sync never raises.
C5_NoFaultEscapes == pc # "raised"

\* C6 as stated: a local key equals a vault key exactly when the account is
\* the username and the service is the first segment of the display name.
C6_KeysIdentify ==
    pc \in {"loop", "done"} =>
        \A k \in 1..Len(keychain_items), j \in 1..Len(bitwarden_items) :
            LET kc == keychain_items[k]
                bw == bitwarden_items[j]
            IN  (kc.account \o << "@" >> \o kc.service = VaultKey(bw))
                    <=> /\ Str(kc.account) = Username(bw.login)
                        /\ kc.service = SplitFirst(bw.name.v, SEP)

\* The op of the k-th call of a run.
OpAt(k) ==
    CASE k = 1 -> "authenticate"
      [] k = 2 -> "listLocal"
      [] k = 3 -> "listEntries"
      [] OTHER -> "createEntry"

\* C7: the calls of a run are authenticate, listLocal, listEntries, then only
\* createEntry: each of the first three once, never repeated; the login has
\* been called once the run is past it; both listings are done and the key set
\* is the one computed from the vault listing whenever the loop classifies,
\* and whenever a run ends after a successful login.
C7_RunOrdering ==
    /\ \A k \in 1..Len(calls) : calls[k].op = OpAt(k)
    /\ pc \notin {"idle", "login"} => Len(calls) >= 1
    /\ pc \in {"lookup", "loop", "raised"} => Len(calls) >= 3
    /\ pc = "lookup" => Len(calls) = 3
    /\ (pc = "done" /\ calls[1].res) => Len(calls) >= 3
    /\ pc = "loop" => bw_lookup = BwLookup(bitwarden_items)

\* C7 witness: a run has ended after two creations.
C7_Witness == pc = "done" /\ Len(calls) = 5 /\ calls[5].op = "createEntry"

\* C8 as stated: when the latest login of the object returned False, its
\* bw_session is None.
C8_FailedLoginNoSession ==
    (Len(calls) >= 1 /\ ~calls[1].res) => bw_session = None

\* The vault entry the listing shows for the item created from a record.
Created(kc_item) == BitwardenItem(ItemData(kc_item))

\* The display name service - account splits back to the service.
SplitsBack(service) ==
    /\ ~Contains(service, << " ", "-", " " >>)
    /\ ~(Len(service) >= 2
         /\ SubSeq(service, Len(service) - 1, Len(service)) = << " ", "-" >>)

\* C9 as stated: the entry created from any record has the record's key, and
\* a write run whose vault listing holds that entry creates nothing for it.
C9_RoundTripAll ==
    \A k \in 1..Len(keychain_items) :
        LET kc == keychain_items[k] IN
        /\ VaultKey(Created(kc)) = kc.account \o << "@" >> \o kc.service
        /\ (k < idx /\ \E j \in 1..Len(bitwarden_items) :
                           bitwarden_items[j] = Created(kc))
               => \A c \in 1..Len(calls) : calls[c].arg # kc

\* C9 amended: the same for the records whose service neither contains the
\* separator nor ends with a space and a hyphen.
C9_RoundTrip ==
    \A k \in 1..Len(keychain_items) :
        LET kc == keychain_items[k] IN
        SplitsBack(kc.service) =>
            /\ VaultKey(Created(kc)) = kc.account \o << "@" >> \o kc.service
            /\ (k < idx /\ \E j \in 1..Len(bitwarden_items) :
                               bitwarden_items[j] = Created(kc))
                   => \A c \in 1..Len(calls) : calls[c].arg # kc

\* C9 witness: a write run has ended; the vault listing held the entry an
\* earlier run created from one of the records, and nothing was created for it.
C9_Witness ==
    /\ pc = "done" /\ ~check_only /\ Len(calls) >= 3
    /\ \E k \in 1..Len(keychain_items) :
           /\ SplitsBack(keychain_items[k].service)
           /\ \E j \in 1..Len(bitwarden_items) :
                  bitwarden_items[j] = Created(keychain_items[k])
           /\ \A c \in 1..Len(calls) : calls[c].arg # keychain_items[k]

\* C10 as stated, for the calls that add an entry: no two createEntry calls
\* of a run that returned true have the same key.
C10_NoDuplicateCreation ==
    \A j, k \in 1..Len(CreateCalls) :
        (j < k /\ CreateCalls[j].res /\ CreateCalls[k].res)
            => LocalKey(CreateCalls[j].arg) # LocalKey(CreateCalls[k].arg)

====
